---- MODULE Spec2Model ----
(***************************************************************************)
(* Model of the Xcalibyte RISC-V peephole pass                             *)
(* (llvm/lib/Target/RISCV/XcalPasses/XcalPeephole.cpp).                    *)
(*                                                                         *)
(* A machine function is a layout-ordered sequence of basic blocks, each   *)
(* an ordered sequence of machine instructions.  The pass applies          *)
(* eliminateJumpToExitBlock and eliminateAssignAfterBranchTest to every    *)
(* block once, in layout order.                                            *)
(***************************************************************************)
EXTENDS Integers, Sequences, FiniteSets, TLC

VARIABLES
  blocks,     \* the MachineFunction: block number -> sequence of instructions
  preds,      \* stored CFG edges: block number -> predecessor list
  pc,         \* position of the driver / of the recognizer harness
  idx,        \* the block the driver's for loop is at
  Changed,    \* runOnMachineFunction's local
  res,        \* return value of the transform called last
  ret,        \* return value of the last completed runOnMachineFunction
  start,      \* the function as it was when the current invocation began
  orig,       \* the function as it was built upstream
  prevClean,  \* the invocation before the current one modified nothing
  liOut,      \* out-parameters and result of the last getLIOperands query
  brOut       \* out-parameters and result of the last getCondBranchOperands query

vars == <<blocks, preds, pc, idx, Changed, res, ret, start, orig, prevClean,
          liOut, brOut>>

---------------------------------------------------------------------------
(* Bounds of the model *)

NumBlocks == 3
MaxImm == 1

BlockIds == 1..NumBlocks
Imms == (0 - MaxImm)..MaxImm
Regs == {"x0", "a0", "a1"}

---------------------------------------------------------------------------
(* Operands and instructions *)

X0 == "x0"
NullMBB == 0
Undef == "undef"

Reg(r) == [k |-> "reg", v |-> r]
Imm(c) == [k |-> "imm", v |-> c]
MBB(b) == [k |-> "mbb", v |-> b]

MI(opc, ops, dl) == [opc |-> opc, ops |-> ops, dl |-> dl]

getOperand(Inst, i) == Inst.ops[i + 1]

isConditionalBranch(Inst) ==
  Inst.opc \in {"BEQ", "BNE", "C_BEQZ", "C_BNEZ", "BLT"}

isUnconditionalBranch(Inst) == Inst.opc = "PseudoBR"

isReturn(Inst) == Inst.opc = "PseudoRET"

isCopy(Inst) == Inst.opc = "COPY"

isRegX0(Operand) == Operand.k = "reg" /\ Operand.v = X0

Back(B) == B[Len(B)]

Front(B) == B[1]

(* MachineBasicBlock::getFallThrough: the next block in layout order, none
   for the last block or after an unconditional transfer. *)
getFallThrough(f, b) ==
  IF b = Len(f) THEN NullMBB
  ELSE IF f[b] # <<>> /\ (isUnconditionalBranch(Back(f[b])) \/ isReturn(Back(f[b])))
       THEN NullMBB
       ELSE b + 1

---------------------------------------------------------------------------
(* getLIOperands: Reg and Imm are the out-parameters, Undef while unwritten *)

LIResult(ok, r, c) == [ok |-> ok, Reg |-> r, Imm |-> c]

AddiX0Imm(LHS, RHS) == isRegX0(LHS) /\ RHS.k = "imm"

(* The register operand is not compared with x0 *)
AddiImmAnyReg(LHS, RHS) == LHS.k = "imm" /\ RHS.k = "reg"

AddiImmX0(LHS, RHS) == LHS.k = "imm" /\ isRegX0(RHS)

CopyImm == 0

getLIOperands(Inst) ==
  IF Inst.opc = "C_LI"
  THEN LIResult(TRUE, getOperand(Inst, 0).v, getOperand(Inst, 1).v)
  ELSE IF Inst.opc = "ADDI" /\ AddiX0Imm(getOperand(Inst, 1), getOperand(Inst, 2))
  THEN LIResult(TRUE, getOperand(Inst, 0).v, getOperand(Inst, 2).v)
  ELSE IF Inst.opc = "ADDI" /\ AddiImmX0(getOperand(Inst, 1), getOperand(Inst, 2))
  THEN LIResult(TRUE, getOperand(Inst, 0).v, getOperand(Inst, 1).v)
  ELSE IF isCopy(Inst) /\ isRegX0(getOperand(Inst, 1))
  THEN LIResult(TRUE, getOperand(Inst, 0).v, CopyImm)
  ELSE LIResult(FALSE,
                IF Inst.opc = "ADDI" THEN getOperand(Inst, 0).v ELSE Undef,
                Undef)

---------------------------------------------------------------------------
(* getCondBranchOperands: Reg, Imm and Target are the out-parameters *)

BrResult(ok, r, c, t) == [ok |-> ok, Reg |-> r, Imm |-> c, Target |-> t]

(* The block written to *Target, when the caller passes a Target. *)
EqualTargetSwapped(f, b, Inst) ==
  IF Inst.opc \in {"BEQ", "C_BEQZ"}
  THEN getFallThrough(f, b)
  ELSE getOperand(Inst, 2).v

EqualTarget(f, b, Inst) ==
  IF Inst.opc \in {"BEQ", "C_BEQZ"}
  THEN getOperand(Inst, 2).v
  ELSE getFallThrough(f, b)

getCondBranchOperands(f, b, Inst, wantTarget) ==
  LET T == IF wantTarget THEN EqualTarget(f, b, Inst) ELSE Undef IN
  IF Inst.opc \in {"BEQ", "BNE"}
  THEN LET LHS == getOperand(Inst, 0)
           RHS == getOperand(Inst, 1)
       IN IF LHS.k = "reg" /\ (RHS.k = "imm" \/ isRegX0(RHS))
          THEN BrResult(TRUE, LHS.v, IF isRegX0(RHS) THEN 0 ELSE RHS.v, T)
          ELSE IF (LHS.k = "imm" \/ isRegX0(LHS)) /\ RHS.k = "reg"
          THEN BrResult(TRUE, RHS.v, IF isRegX0(LHS) THEN 0 ELSE LHS.v, T)
          ELSE BrResult(FALSE, Undef, Undef, T)
  ELSE IF Inst.opc \in {"C_BEQZ", "C_BNEZ"}
  THEN BrResult(TRUE, getOperand(Inst, 0).v, 0, T)
  ELSE BrResult(FALSE, Undef, Undef, Undef)

---------------------------------------------------------------------------
(* Transform A: eliminateJumpToExitBlock *)

Erase(B, i) == SubSeq(B, 1, i - 1) \o SubSeq(B, i + 1, Len(B))

TransformResult(f, c, ub) == [f |-> f, Changed |-> c, ub |-> ub]

(* The return is appended and the jump is not erased *)
ReplaceJumpKeepBranch(B) == Append(B, MI("PseudoRET", <<>>, Back(B).dl))

(* Target->size() is not looked at *)
IsExitBlockAnySize(Target) == Target # <<>> /\ isReturn(Back(Target))

(* Target->size() == 1 && Target->front().isReturn() *)
IsExitBlock(Target) == Len(Target) = 1 /\ isReturn(Front(Target))

(* BuildMI(&MBB, DL, PseudoRET) appends the return; the jump is then erased *)
ReplaceJumpByRet(B) ==
  Erase(Append(B, MI("PseudoRET", <<>>, Back(B).dl)), Len(B))

(* Changed = true is reached for every trailing jump *)
ChangedByAnyJump(isJump, isExit) == isJump

(* Changed = true is set only where the jump was replaced *)
ChangedByA(isJump, isExit) == isJump /\ isExit

eliminateJumpToExitBlock(f, b) ==
  IF f[b] = <<>> THEN TransformResult(f, FALSE, FALSE)
  ELSE LET isJump == isUnconditionalBranch(Back(f[b]))
           isExit == isJump /\ IsExitBlock(f[getOperand(Back(f[b]), 0).v])
       IN TransformResult(
            IF isExit THEN [f EXCEPT ![b] = ReplaceJumpByRet(@)] ELSE f,
            ChangedByA(isJump, isExit), FALSE)

---------------------------------------------------------------------------
(* Transform B: eliminateAssignAfterBranchTest *)

(* Only the register of the predecessor's test is compared *)
PredTestsSameReg(PReg, PImm, Dst, ImmV) == PReg = Dst

(* The comparison of one predecessor's resolved pair with the assignment *)
PredTestsSame(PReg, PImm, Dst, ImmV) == PReg = Dst /\ PImm = ImmV

RECURSIVE Removable(_, _, _, _, _)
Removable(f, ps, i, Dst, ImmV) ==
  IF i > Len(ps) THEN TRUE
  ELSE IF f[ps[i]] = <<>>
       THEN Removable(f, ps, i + 1, Dst, ImmV)
  ELSE IF ~isConditionalBranch(Back(f[ps[i]])) THEN FALSE
  ELSE LET P == getCondBranchOperands(f, ps[i], Back(f[ps[i]]), FALSE) IN
       IF ~P.ok THEN FALSE
       ELSE IF PredTestsSame(P.Reg, P.Imm, Dst, ImmV)
            THEN Removable(f, ps, i + 1, Dst, ImmV)
            ELSE FALSE

(* The block's last instruction is erased instead of its first *)
EraseBack(B) == Erase(B, Len(B))

(* Head.eraseFromParent() *)
EraseHead(B) == Erase(B, 1)

(* The candidate test on the branch block's pair and the target's head *)
IsCandidate(Li, Br) == Li.ok /\ Li.Reg = Br.Reg /\ Li.Imm = Br.Imm

eliminateAssignAfterBranchTest(f, p, b) ==
  IF f[b] = <<>> THEN TransformResult(f, FALSE, FALSE)
  ELSE IF ~isConditionalBranch(Back(f[b])) THEN TransformResult(f, FALSE, FALSE)
  ELSE LET Br == getCondBranchOperands(f, b, Back(f[b]), TRUE) IN
       IF ~Br.ok THEN TransformResult(f, FALSE, FALSE)
       ELSE IF Br.Target = NullMBB THEN TransformResult(f, FALSE, TRUE)
       ELSE IF f[Br.Target] = <<>> THEN TransformResult(f, FALSE, FALSE)
       ELSE IF IsCandidate(getLIOperands(Front(f[Br.Target])), Br)
               /\ Removable(f, p[Br.Target], 1, Br.Reg, Br.Imm)
            THEN TransformResult([f EXCEPT ![Br.Target] = EraseHead(@)], TRUE, FALSE)
            ELSE TransformResult(f, FALSE, FALSE)

---------------------------------------------------------------------------
(* The functions the pass is run on.  A block is an optional leading
   instruction followed by an optional terminator; every instruction carries
   a debug location that names the place it was built at. *)

DL(b, i) == <<b, i>>

HeadKinds == {"none", "li"}

TermKind(t, to) == [t |-> t, to |-> to]

(* terminators of the functions the driver is run on *)
DriverTerms ==
  {TermKind("none", NullMBB), TermKind("ret", NullMBB),
   TermKind("beqz", NumBlocks), TermKind("bnez", NumBlocks)}
  \cup {TermKind("j", to) : to \in {1, NumBlocks}}

(* terminators of the functions Transform A alone is applied to *)
JumpTerms ==
  {TermKind("none", NullMBB), TermKind("ret", NullMBB),
   TermKind("beqz", NumBlocks)}
  \cup {TermKind("j", to) : to \in BlockIds}

(* terminators of the functions Transform B alone is applied to *)
BranchTerms ==
  {TermKind("none", NullMBB), TermKind("j", NumBlocks),
   TermKind("beq1", NumBlocks), TermKind("cbnez1", NumBlocks),
   TermKind("blt", NumBlocks)}
  \cup {TermKind(t, to) : t \in {"beqz", "bnez"}, to \in {1, NumBlocks}}

HeadInst(h, dl) == MI("ADDI", <<Reg("a0"), Reg(X0), Imm(0)>>, dl)

TermInst(k, dl) ==
  CASE k.t = "ret"    -> MI("PseudoRET", <<>>, dl)
    [] k.t = "j"      -> MI("PseudoBR", <<MBB(k.to)>>, dl)
    [] k.t = "beqz"   -> MI("BEQ", <<Reg("a0"), Reg(X0), MBB(k.to)>>, dl)
    [] k.t = "bnez"   -> MI("BNE", <<Reg(X0), Reg("a0"), MBB(k.to)>>, dl)
    [] k.t = "beq1"   -> MI("BEQ", <<Imm(1), Reg("a0"), MBB(k.to)>>, dl)
    [] k.t = "cbnez1" -> MI("C_BNEZ", <<Reg("a1"), Reg(X0), MBB(k.to)>>, dl)
    [] k.t = "blt"    -> MI("BLT", <<Reg("a0"), Reg(X0), MBB(k.to)>>, dl)

BuildBlock(b, h, k) ==
  CASE h = "none" /\ k.t = "none" -> <<>>
    [] h = "none" /\ k.t # "none" -> <<TermInst(k, DL(b, 1))>>
    [] h # "none" /\ k.t = "none" -> <<HeadInst(h, DL(b, 1))>>
    [] h # "none" /\ k.t # "none" -> <<HeadInst(h, DL(b, 1)), TermInst(k, DL(b, 2))>>

(* Every conditional branch has a fallthrough: none ends the last block *)
WellFormed(f) ==
  IF f[Len(f)] = <<>> THEN TRUE ELSE ~isConditionalBranch(Back(f[Len(f)]))

(* Successors as the lowering stage records them: the explicit targets of
   the block's branches and its fallthrough. *)
Succs(f, b) ==
  {getOperand(f[b][i], Len(f[b][i].ops) - 1).v :
     i \in {j \in 1..Len(f[b]) :
              isConditionalBranch(f[b][j]) \/ isUnconditionalBranch(f[b][j])}}
  \cup ({getFallThrough(f, b)} \ {NullMBB})

RECURSIVE SetToSeq(_, _)
SetToSeq(S, asc) ==
  IF S = {} THEN <<>>
  ELSE LET x == IF asc THEN CHOOSE y \in S : \A z \in S : y <= z
                       ELSE CHOOSE y \in S : \A z \in S : y >= z
       IN <<x>> \o SetToSeq(S \ {x}, asc)

PredLists(f, asc) ==
  [T \in 1..Len(f) |-> SetToSeq({b \in 1..Len(f) : T \in Succs(f, b)}, asc)]

NoLI == LIResult(FALSE, Undef, Undef)
NoBr == BrResult(FALSE, Undef, Undef, Undef)

InitWith(Terms, Orders) ==
  /\ \E hs \in [BlockIds -> HeadKinds], ks \in [BlockIds -> Terms] :
       blocks = [b \in BlockIds |-> BuildBlock(b, hs[b], ks[b])]
  /\ WellFormed(blocks)
  /\ \E asc \in Orders : preds = PredLists(blocks, asc)
  /\ pc = "idle"
  /\ idx = 1
  /\ Changed = FALSE
  /\ res = FALSE
  /\ ret = FALSE
  /\ start = blocks
  /\ orig = blocks
  /\ prevClean = FALSE
  /\ liOut = NoLI
  /\ brOut = NoBr

Init == InitWith(DriverTerms, {TRUE})

---------------------------------------------------------------------------
(* runOnMachineFunction, one action per statement of its loop *)

(* entry: bool Changed = false; the loop starts at the first block *)
Invoke ==
  /\ pc \in {"idle", "done"}
  /\ pc' = "A"
  /\ idx' = 1
  /\ Changed' = FALSE
  /\ res' = FALSE
  /\ start' = blocks
  /\ prevClean' = (pc = "done" /\ blocks = start)
  /\ UNCHANGED <<blocks, preds, ret, orig, liOut, brOut>>

(* Changed = eliminateJumpToExitBlock(MBB); *)
AfterA(c, r) == r

StepA ==
  /\ pc = "A"
  /\ LET R == eliminateJumpToExitBlock(blocks, idx) IN
       /\ blocks' = R.f
       /\ res' = R.Changed
       /\ Changed' = AfterA(Changed, R.Changed)
  /\ pc' = "B"
  /\ UNCHANGED <<preds, idx, ret, start, orig, prevClean, liOut, brOut>>

(* Changed |= eliminateAssignAfterBranchTest(MBB); then the next block *)
AfterB(c, r) == c \/ r

StepB ==
  /\ pc = "B"
  /\ LET R == eliminateAssignAfterBranchTest(blocks, preds, idx) IN
       /\ blocks' = R.f
       /\ res' = R.Changed
       /\ Changed' = AfterB(Changed, R.Changed)
       /\ pc' = IF R.ub THEN "ub" ELSE IF idx = NumBlocks THEN "ret" ELSE "A"
       /\ idx' = IF R.ub \/ idx = NumBlocks THEN idx ELSE idx + 1
  /\ UNCHANGED <<preds, ret, start, orig, prevClean, liOut, brOut>>

(* return Changed; *)
Return ==
  /\ pc = "ret"
  /\ ret' = Changed
  /\ pc' = "done"
  /\ UNCHANGED <<blocks, preds, idx, Changed, res, start, orig, prevClean,
                 liOut, brOut>>

Next == Invoke \/ StepA \/ StepB \/ Return

Spec == Init /\ [][Next]_vars

---------------------------------------------------------------------------
(* Transform A applied once to any block of a function *)

InitA == InitWith(JumpTerms, {TRUE})

ApplyA(b) ==
  /\ pc = "idle"
  /\ LET R == eliminateJumpToExitBlock(blocks, b) IN
       /\ blocks' = R.f
       /\ res' = R.Changed
  /\ idx' = b
  /\ pc' = "ranA"
  /\ UNCHANGED <<preds, Changed, ret, start, orig, prevClean, liOut, brOut>>

NextA == \E b \in BlockIds : ApplyA(b)

SpecA == InitA /\ [][NextA]_vars

---------------------------------------------------------------------------
(* Transform B applied once to any block of a function, the predecessor
   lists in either order *)

InitB == InitWith(BranchTerms, BOOLEAN)

ApplyB(b) ==
  /\ pc = "idle"
  /\ LET R == eliminateAssignAfterBranchTest(blocks, preds, b) IN
       /\ blocks' = R.f
       /\ res' = R.Changed
       /\ pc' = IF R.ub THEN "ub" ELSE "ranB"
  /\ idx' = b
  /\ UNCHANGED <<preds, Changed, ret, start, orig, prevClean, liOut, brOut>>

NextB == \E b \in BlockIds : ApplyB(b)

SpecB == InitB /\ [][NextB]_vars

---------------------------------------------------------------------------
(* The recognizers applied to one instruction, the only one of its block *)

RegOps == {Reg(r) : r \in Regs}
ImmOps == {Imm(c) : c \in Imms}
MBBOps == {MBB(t) : t \in BlockIds}

AllInsts(dl) ==
  {MI("C_LI", <<d, c>>, dl) : d \in RegOps, c \in ImmOps}
  \cup {MI("ADDI", <<d, l, r>>, dl) :
          d \in RegOps, l \in RegOps \cup ImmOps, r \in RegOps \cup ImmOps}
  \cup {MI("COPY", <<d, s>>, dl) : d \in RegOps, s \in RegOps}
  \cup {MI(o, <<l, r, t>>, dl) :
          o \in {"BEQ", "BNE", "BLT"},
          l \in RegOps \cup ImmOps, r \in RegOps \cup ImmOps, t \in MBBOps}
  \cup {MI(o, <<d, Reg(X0), t>>, dl) :
          o \in {"C_BEQZ", "C_BNEZ"}, d \in RegOps, t \in MBBOps}
  \cup {MI("PseudoBR", <<t>>, dl) : t \in MBBOps}
  \cup {MI("PseudoRET", <<>>, dl), MI("SW", <<>>, dl)}

InitR ==
  /\ \E b \in BlockIds : \E I \in AllInsts(DL(b, 1)) :
       /\ idx = b
       /\ blocks = [c \in BlockIds |-> IF c = b THEN <<I>> ELSE <<>>]
  /\ WellFormed(blocks)
  /\ preds = PredLists(blocks, TRUE)
  /\ pc = "query"
  /\ Changed = FALSE
  /\ res = FALSE
  /\ ret = FALSE
  /\ start = blocks
  /\ orig = blocks
  /\ prevClean = FALSE
  /\ liOut = NoLI
  /\ brOut = NoBr

QueryLI ==
  /\ pc = "query"
  /\ liOut' = getLIOperands(Front(blocks[idx]))
  /\ pc' = "li"
  /\ UNCHANGED <<blocks, preds, idx, Changed, res, ret, start, orig, prevClean,
                 brOut>>

QueryBranch(wantTarget) ==
  /\ pc = "query"
  /\ brOut' = getCondBranchOperands(blocks, idx, Front(blocks[idx]), wantTarget)
  /\ pc' = IF wantTarget THEN "brT" ELSE "br"
  /\ UNCHANGED <<blocks, preds, idx, Changed, res, ret, start, orig, prevClean,
                 liOut>>

NextR == QueryLI \/ \E w \in BOOLEAN : QueryBranch(w)

SpecR == InitR /\ [][NextR]_vars

---------------------------------------------------------------------------
(* Properties of the recognizers, checked under SpecR *)

QueriedInst == Front(blocks[idx])

(* C9: getLIOperands recognizes the short constant load of C into R, the
   add-immediate into R of x0 and C in either operand order, all with the
   pair (R, C), and the copy into R from x0 with the pair (R, 0); every
   other instruction is not recognized. *)
RecognizerEquivalence ==
  pc = "li" =>
    LET I == QueriedInst
        Yields(r, c) == liOut.ok /\ liOut.Reg = r /\ liOut.Imm = c
    IN CASE I.opc = "C_LI" -> Yields(I.ops[1].v, I.ops[2].v)
         [] I.opc = "ADDI" /\ I.ops[2] = Reg(X0) /\ I.ops[3].k = "imm" ->
              Yields(I.ops[1].v, I.ops[3].v)
         [] I.opc = "ADDI" /\ I.ops[2].k = "imm" /\ I.ops[3] = Reg(X0) ->
              Yields(I.ops[1].v, I.ops[2].v)
         [] I.opc = "COPY" /\ I.ops[2] = Reg(X0) -> Yields(I.ops[1].v, 0)
         [] OTHER -> ~liOut.ok

(* the add-immediate with the immediate first and x0 second was recognized *)
RecognizerEquivalenceWitness ==
  /\ pc = "li"
  /\ QueriedInst.opc = "ADDI"
  /\ QueriedInst.ops[2].k = "imm"
  /\ QueriedInst.ops[3] = Reg(X0)
  /\ liOut.ok
  /\ liOut.Imm = QueriedInst.ops[2].v

IsConstOperand(o) == o.k = "imm" \/ o = Reg(X0)

ConstOf(o) == IF o.k = "imm" THEN o.v ELSE 0

(* the readings of two operands as (register, constant), in either order *)
Readings(l, r) ==
  {<<l.v, ConstOf(r)>> : x \in {y \in {1} : l.k = "reg" /\ IsConstOperand(r)}}
  \cup {<<r.v, ConstOf(l)>> : x \in {y \in {1} : r.k = "reg" /\ IsConstOperand(l)}}

TwinOpcode(o) ==
  CASE o = "BEQ" -> "BNE" [] o = "BNE" -> "BEQ"
    [] o = "C_BEQZ" -> "C_BNEZ" [] o = "C_BNEZ" -> "C_BEQZ"

(* C8: with a target requested, getCondBranchOperands resolves the explicit
   target for branch-equal and compare-zero-branch-equal and the fallthrough
   successor of the branch's block for branch-not-equal and
   compare-zero-branch-not-equal; the pair is the register with the
   immediate, or with 0 for x0, the same for the equality and the inequality
   form; every other branch kind fails. *)
BranchPolarity ==
  pc = "brT" =>
    LET I == QueriedInst
        Twin == getCondBranchOperands(
                  blocks, idx, [I EXCEPT !.opc = TwinOpcode(I.opc)], TRUE)
        SameAsTwin == Twin.ok /\ Twin.Reg = brOut.Reg /\ Twin.Imm = brOut.Imm
    IN CASE I.opc \in {"BEQ", "BNE"} /\ Readings(I.ops[1], I.ops[2]) # {} ->
              /\ brOut.ok
              /\ <<brOut.Reg, brOut.Imm>> \in Readings(I.ops[1], I.ops[2])
              /\ brOut.Target = IF I.opc = "BEQ" THEN I.ops[3].v ELSE idx + 1
              /\ SameAsTwin
         [] I.opc \in {"C_BEQZ", "C_BNEZ"} ->
              /\ brOut.ok
              /\ brOut.Reg = I.ops[1].v /\ brOut.Imm = 0
              /\ brOut.Target = IF I.opc = "C_BEQZ" THEN I.ops[3].v ELSE idx + 1
              /\ SameAsTwin
         [] I.opc \in {"BEQ", "BNE"} /\ Readings(I.ops[1], I.ops[2]) = {} -> TRUE
         [] OTHER -> ~brOut.ok

(* a branch-not-equal of an immediate and a register resolved its
   fallthrough, which is not its explicit target *)
BranchPolarityWitness ==
  /\ pc = "brT"
  /\ QueriedInst.opc = "BNE"
  /\ QueriedInst.ops[1].k = "imm"
  /\ brOut.ok
  /\ brOut.Target = idx + 1
  /\ brOut.Target # QueriedInst.ops[3].v

---------------------------------------------------------------------------
(* Properties of Transform A, checked under SpecA: start is the function
   before the call, blocks the function after it *)

EndsInJump(B) == B # <<>> /\ Back(B).opc = "PseudoBR"

JumpTarget(B) == Back(B).ops[1].v

IsSingleReturn(T) == Len(T) = 1 /\ T[1].opc = "PseudoRET"

(* C5: for a block B ending in an unconditional branch to T, if T is a
   single return then B ends in a return carrying the branch's debug
   location, the branch is gone, B's earlier instructions and every other
   block are unchanged and "changed" is reported; if T is anything else no
   block is modified and "unchanged" is reported; if B is empty or does not
   end in an unconditional branch nothing is modified. *)
JumpThreadingEffect ==
  pc = "ranA" =>
    LET B == start[idx]
        A == blocks[idx]
    IN IF EndsInJump(B)
       THEN IF IsSingleReturn(start[JumpTarget(B)])
            THEN /\ res = TRUE
                 /\ Len(A) = Len(B)
                 /\ Back(A).opc = "PseudoRET"
                 /\ Back(A).dl = Back(B).dl
                 /\ \A i \in 1..Len(A) : A[i] # Back(B)
                 /\ \A i \in 1..(Len(B) - 1) : A[i] = B[i]
                 /\ \A c \in BlockIds \ {idx} : blocks[c] = start[c]
            ELSE res = FALSE /\ blocks = start
       ELSE blocks = start

(* a jump behind a leading instruction was replaced by a return *)
JumpThreadingWitness ==
  /\ pc = "ranA"
  /\ res = TRUE
  /\ Len(start[idx]) = 2
  /\ EndsInJump(start[idx])
  /\ Back(blocks[idx]).opc = "PseudoRET"
  /\ blocks[idx][1] = start[idx][1]

---------------------------------------------------------------------------
(* Properties of Transform B, checked under SpecB: start is the function
   before the call, blocks the function after it *)

PredSet(T) == {preds[T][i] : i \in 1..Len(preds[T])}

(* the blocks whose leading instruction the call erased *)
ErasedTargets == {T \in BlockIds : blocks[T] # start[T]}

(* the block a recognized branch ending block P reaches when the tested
   register equals the constant *)
EqualOutcome(P) ==
  IF Back(start[P]).opc \in {"BEQ", "C_BEQZ"}
  THEN Back(start[P]).ops[3].v
  ELSE P + 1

TestedPair(P) ==
  LET R == getCondBranchOperands(start, P, Back(start[P]), FALSE)
  IN <<R.Reg, R.Imm>>

EndsInRecognizedBranch(P) ==
  /\ start[P] # <<>>
  /\ isConditionalBranch(Back(start[P]))
  /\ getCondBranchOperands(start, P, Back(start[P]), FALSE).ok

AssignedPair(T) ==
  LET L == getLIOperands(Front(start[T])) IN <<L.Reg, L.Imm>>

StartsWithAssignment(T) ==
  start[T] # <<>> /\ getLIOperands(Front(start[T])).ok

(* the block Transform B looks at when called on block b *)
HasTarget(b) == EndsInRecognizedBranch(b)

TargetOf(b) == EqualOutcome(b)

(* C2: whenever Transform B erases the leading assignment of T, every
   predecessor of T that ends in an instruction ends in a recognized
   conditional branch whose "equal" outcome is T and whose tested pair is
   the assigned pair; a predecessor reaching T on "not equal" prevents the
   removal. *)
RemovalOnlyOnEqualEdges ==
  pc = "ranB" =>
    \A T \in ErasedTargets : \A P \in PredSet(T) :
      start[P] # <<>> =>
        /\ EndsInRecognizedBranch(P)
        /\ EqualOutcome(P) = T
        /\ TestedPair(P) = AssignedPair(T)

(* C3: if a predecessor of the target block is empty, Transform B erases
   nothing and reports "unchanged". *)
EmptyPredRejects ==
  (pc = "ranB" /\ HasTarget(idx)) =>
    ((\E P \in PredSet(TargetOf(idx)) : start[P] = <<>>)
       => (res = FALSE /\ blocks = start))

(* a non-empty predecessor P of T that does not prove the assigned pair *)
FailsProof(P, T) ==
  /\ start[P] # <<>>
  /\ \/ ~EndsInRecognizedBranch(P)
     \/ TestedPair(P) # AssignedPair(T)

(* C4: if a non-empty predecessor of a block T with a leading assignment
   ends in something other than a conditional branch, in an unrecognized
   conditional branch, or in a recognized branch testing another register
   or constant, T's leading assignment is not erased; when T is the target
   block of the call no block is modified and "unchanged" is reported. *)
BadPredRejects ==
  pc = "ranB" =>
    \A T \in BlockIds :
      (StartsWithAssignment(T) /\ \E P \in PredSet(T) : FailsProof(P, T))
        => /\ blocks[T] = start[T]
           /\ (HasTarget(idx) /\ TargetOf(idx) = T)
                => (res = FALSE /\ blocks = start)

(* the branch block tests the assigned pair of its target, another
   predecessor tests the same register against another constant, and the
   call changed nothing *)
BadPredRejectsWitness ==
  /\ pc = "ranB"
  /\ HasTarget(idx)
  /\ StartsWithAssignment(TargetOf(idx))
  /\ TestedPair(idx) = AssignedPair(TargetOf(idx))
  /\ \E P \in PredSet(TargetOf(idx)) :
       /\ EndsInRecognizedBranch(P)
       /\ TestedPair(P)[1] = AssignedPair(TargetOf(idx))[1]
       /\ TestedPair(P)[2] # AssignedPair(TargetOf(idx))[2]
  /\ res = FALSE
  /\ blocks = start

---------------------------------------------------------------------------
(* Properties of the driver, checked under Spec *)

(* C1: runOnMachineFunction returns true if a block was modified during
   the invocation, whichever block it was. *)
ReturnReportsAnyChange ==
  (pc = "done" /\ blocks # start) => ret = TRUE

(* B is the original block O with its first k instructions erased, all of
   them constant assignments, and with at most its trailing unconditional
   branch replaced in place by a return of the same debug location *)
DerivedFrom(B, O) ==
  \E k \in 0..Len(O) :
    /\ Len(B) = Len(O) - k
    /\ \A i \in 1..k : getLIOperands(O[i]).ok
    /\ \A j \in 1..Len(B) :
         \/ B[j] = O[k + j]
         \/ /\ j = Len(B)
            /\ O[k + j].opc = "PseudoBR"
            /\ B[j] = MI("PseudoRET", <<>>, O[k + j].dl)

(* C6: after any sequence of invocations the blocks, their order and the
   predecessor lists are those of the original function, and every block
   is its original sequence with constant assignments erased from its
   front and with its trailing unconditional branch replaced by a return:
   no instruction changes block and no block grows. *)
OnlyErasesAndReplaces ==
  /\ DOMAIN blocks = DOMAIN orig
  /\ preds = PredLists(orig, TRUE)
  /\ \A b \in BlockIds :
       /\ DerivedFrom(blocks[b], orig[b])
       /\ Len(blocks[b]) <= Len(orig[b])
       /\ \A j \in 1..Len(blocks[b]) : blocks[b][j].dl[1] = b

(* a block that lost its leading assignment and had, in a later
   invocation, its trailing jump replaced by a return *)
OnlyErasesAndReplacesWitness ==
  /\ pc = "done"
  /\ \E b \in BlockIds :
       /\ Len(orig[b]) = 2
       /\ Len(blocks[b]) = 1
       /\ orig[b][2].opc = "PseudoBR"
       /\ blocks[b][1].opc = "PseudoRET"

(* C7: when an invocation modified nothing, the next invocation leaves the
   function identical too and returns false. *)
IdempotentAtFixedPoint ==
  (pc = "done" /\ prevClean) => (blocks = start /\ ret = FALSE)

(* a second clean invocation has returned, on a function that earlier
   invocations did modify and whose last block ends in a jump *)
IdempotentAtFixedPointWitness ==
  /\ pc = "done"
  /\ prevClean
  /\ blocks # orig
  /\ EndsInJump(blocks[NumBlocks])

RECURSIVE CountJumps(_)
CountJumps(B) ==
  IF B = <<>> THEN 0
  ELSE (IF B[1].opc = "PseudoBR" THEN 1 ELSE 0) + CountJumps(Tail(B))

RECURSIVE MeasureFrom(_, _)
MeasureFrom(f, b) ==
  IF b > Len(f) THEN 0
  ELSE Len(f[b]) + CountJumps(f[b]) + MeasureFrom(f, b + 1)

(* total number of instructions + number of unconditional branches *)
Measure(f) == MeasureFrom(f, 1)

(* no transform applies to any block *)
FixedPoint ==
  \A b \in BlockIds :
    /\ eliminateJumpToExitBlock(blocks, b).f = blocks
    /\ eliminateAssignAfterBranchTest(blocks, preds, b).f = blocks

(* C10: an invocation visits the blocks one after the other and returns;
   every modification strictly decreases the measure; under repeated
   invocation the function reaches a fixed point and stays there. *)
Convergence ==
  /\ [][/\ blocks' # blocks => Measure(blocks') < Measure(blocks)
        /\ (pc = "B" /\ idx < NumBlocks) => (pc' = "A" /\ idx' = idx + 1)
        /\ (pc = "B" /\ idx = NumBlocks) => pc' = "ret"
        /\ pc = "ret" => pc' = "done"]_vars
  /\ <>[]FixedPoint

(* an invocation has returned that modified the function twice *)
ConvergenceWitness ==
  /\ pc = "done"
  /\ Measure(blocks) + 2 <= Measure(start)
  /\ FixedPoint

FairSpec == Spec /\ WF_vars(Next)

====
